---- MODULE Spec2Model ----
(***************************************************************************)
(* Model of decima.py: a codec that writes a binary file as one decimal    *)
(* integer per 32-byte chunk (little-endian), gzip-compressed, and reads   *)
(* it back.                                                                *)
(*                                                                         *)
(* Python integers are unbounded, so an integer is modelled by its decimal *)
(* expansion, grouped into limbs of six decimal digits (most significant   *)
(* limb first, no leading zero limb, zero is <<0>>); text is a sequence of *)
(* one-character strings; bytes are a sequence of 0..255.  gzip is         *)
(* modelled by the text it carries plus the fact that the file is a gzip   *)
(* container.                                                              *)
(***************************************************************************)
EXTENDS Integers, Sequences, FiniteSets, TLC

\* Decima.chunk_size
chunk_size == 32

\* The radix of a byte: divmod(v, 256) in bitfy, and int.from_bytes.
ByteBase == 256

(***************************************************************************)
(* Unbounded naturals in decimal.                                          *)
(***************************************************************************)
LimbDigits == 6
LimbBase == 1000000

Pow10(k) == <<1, 10, 100, 1000, 10000, 100000, 1000000>>[k + 1]

RECURSIVE NatInt(_)
\* A machine-sized natural number as an integer of the model.
NatInt(n) ==
    IF n < LimbBase THEN <<n>>
    ELSE Append(NatInt(n \div LimbBase), n % LimbBase)

RECURSIVE Normalize(_)
\* Drop leading zero limbs; the empty sequence is zero.
Normalize(L) ==
    IF L = <<>> THEN <<0>>
    ELSE IF Len(L) > 1 /\ L[1] = 0 THEN Normalize(Tail(L))
    ELSE L

RECURSIVE ToNat(_)
\* The value of a (short) integer of the model as a number.
ToNat(L) ==
    IF L = <<>> THEN 0
    ELSE LimbBase * ToNat(SubSeq(L, 1, Len(L) - 1)) + L[Len(L)]

\* The loops below carry their state in one record, so that every pass
\* works on evaluated values.

RECURSIVE MulAddLoop(_, _)
\* Multiply the limbs L[1..s.i] by ByteBase, least significant limb first;
\* s.lo holds the limbs already produced, s.carry the carry into limb s.i.
MulAddLoop(L, s) ==
    IF s.i = 0
    THEN s
    ELSE MulAddLoop(L, [i     |-> s.i - 1,
                        carry |-> (L[s.i] * ByteBase + s.carry) \div LimbBase,
                        lo    |-> <<(L[s.i] * ByteBase + s.carry) % LimbBase>>
                                  \o s.lo])

\* L * ByteBase + a.
MulAdd(L, a) ==
    LET x == MulAddLoop(L, [i |-> Len(L), carry |-> a, lo |-> <<>>])
    IN  Normalize(<<x.carry>> \o x.lo)

RECURSIVE DivLoop(_, _)
\* Long division of L by ByteBase, most significant limb first; s.q holds
\* the quotient limbs already produced, s.r the running remainder.
DivLoop(L, s) ==
    IF s.i > Len(L)
    THEN s
    ELSE DivLoop(L, [i |-> s.i + 1,
                     r |-> (s.r * LimbBase + L[s.i]) % ByteBase,
                     q |-> Append(s.q, (s.r * LimbBase + L[s.i]) \div ByteBase)])

\* divmod(v, 256) on a non-negative integer.
divmod(v) ==
    LET x == DivLoop(v, [i |-> 1, r |-> 0, q |-> <<>>])
    IN  [q |-> Normalize(x.q), r |-> x.r]

(***************************************************************************)
(* bitfy: the bytes of an integer, least significant first.  The generator *)
(* yields the remainder BEFORE it tests the quotient, so bitfy(0) yields   *)
(* one zero byte.  "raise StopIteration" ends the generator (the semantics *)
(* of the Python 3 releases the program was written for; under PEP 479,    *)
(* Python 3.7 and later, the same statement surfaces as a RuntimeError).   *)
(***************************************************************************)
RECURSIVE bitfy(_)
bitfy(v) ==
    LET dm == divmod(v)
    IN  IF dm.q = <<0>> THEN <<dm.r>> ELSE <<dm.r>> \o bitfy(dm.q)

(***************************************************************************)
(* Text.                                                                   *)
(***************************************************************************)
DigitChars == <<"0", "1", "2", "3", "4", "5", "6", "7", "8", "9">>

IsDigitChar(c) == \E d \in 1..10 : DigitChars[d] = c

DigitVal(c) == (CHOOSE d \in 1..10 : DigitChars[d] = c) - 1

\* The number of decimal digits of a limb.
NDigits(x) == CHOOSE k \in 1..LimbDigits : x < Pow10(k) /\ (k = 1 \/ x >= Pow10(k - 1))

\* str(n) for a non-negative integer: its decimal digits, no leading zero.
str(L) ==
    LET n == LimbDigits * (Len(L) - 1) + NDigits(L[1])
    IN  [p \in 1..n |->
            LET j == n - p
            IN  DigitChars[((L[Len(L) - (j \div LimbDigits)]
                              \div Pow10(j % LimbDigits)) % 10) + 1]]

\* The integer whose decimal digits are the characters of body.
FromDigitChars(body) ==
    LET n == Len(body)
        k == (n + LimbDigits - 1) \div LimbDigits
        D(pos, j) == IF pos >= 1 THEN DigitVal(body[pos]) * Pow10(j) ELSE 0
    IN  Normalize([idx \in 1..k |->
            LET low == n - LimbDigits * (k - idx)
            IN  D(low, 0) + D(low - 1, 1) + D(low - 2, 2)
                + D(low - 3, 3) + D(low - 4, 4) + D(low - 5, 5)])

\* The characters int() strips from both ends.
Whitespace == {"\n", " "}

RECURSIVE LStrip(_)
LStrip(t) ==
    IF t # <<>> /\ t[1] \in Whitespace THEN LStrip(Tail(t)) ELSE t

RECURSIVE RStrip(_)
RStrip(t) ==
    IF t # <<>> /\ t[Len(t)] \in Whitespace
    THEN RStrip(SubSeq(t, 1, Len(t) - 1))
    ELSE t

\* int(text): ok is FALSE where Python raises ValueError.
int(t) ==
    LET s    == RStrip(LStrip(t))
        sign == s # <<>> /\ s[1] \in {"-", "+"}
        body == IF sign THEN Tail(s) ELSE s
        ok   == body # <<>> /\ \A i \in 1..Len(body) : IsDigitChar(body[i])
        mag  == IF ok THEN FromDigitChars(body) ELSE <<0>>
    IN  [ok  |-> ok,
         neg |-> ok /\ s[1] = "-" /\ mag # <<0>>,
         mag |-> mag]

RECURSIVE split(_, _)
\* text.split(sep): the pieces between the separators.
split(t, sep) ==
    IF \A i \in 1..Len(t) : t[i] # sep
    THEN <<t>>
    ELSE LET k == CHOOSE i \in 1..Len(t) :
                      t[i] = sep /\ \A j \in 1..(i - 1) : t[j] # sep
         IN  <<SubSeq(t, 1, k - 1)>> \o split(SubSeq(t, k + 1, Len(t)), sep)

\* ljust that forgets to pad.
ljust_none(b, width) == b

\* bytes.ljust(width, b'\x00'); width is a Python int, possibly negative.
ljust(b, width) ==
    IF width <= Len(b) THEN b ELSE b \o [i \in 1..(width - Len(b)) |-> 0]

(***************************************************************************)
(* The chunk codec.                                                        *)
(***************************************************************************)
RECURSIVE FromBytesLoop(_, _)
\* The value of the bytes chunk[s.i + 1..] is s.acc; take in byte s.i.
FromBytesLoop(chunk, s) ==
    IF s.i = 0
    THEN s.acc
    ELSE FromBytesLoop(chunk, [i   |-> s.i - 1,
                               acc |-> MulAdd(s.acc, chunk[s.i])])

\* int.from_bytes(chunk, byteorder='little')
from_bytes(chunk) == FromBytesLoop(chunk, [i |-> Len(chunk), acc |-> <<0>>])

\* The suffix test written with <= instead of <.
human_readable_le(chunk) ==
    LET hr == str(from_bytes(chunk))
    IN  IF Len(chunk) <= chunk_size
        THEN hr \o <<":">> \o str(NatInt(Len(chunk)))
        ELSE hr

\* The body of the encode loop up to the suffix: the text of one chunk.
human_readable(chunk) ==
    LET hr == str(from_bytes(chunk))
    IN  IF Len(chunk) < chunk_size
        THEN hr \o <<":">> \o str(NatInt(Len(chunk)))
        ELSE hr

\* human_readable + "\n": the line written for a chunk.
line_of(chunk) == human_readable(chunk) \o <<"\n">>

\* The value of a parsed Python int that is known to be short.
IntVal(p) == IF p.neg THEN 0 - ToNat(p.mag) ELSE ToNat(p.mag)

\* decode_line without the padding step.
as_bytes_unpadded(n, pad_to) ==
    IF n.neg
    THEN [err |-> "RecursionError", bytes |-> <<>>]
    ELSE [err |-> "none", bytes |-> bitfy(n.mag)]

\* "Represent as bytes" and "Pad if need be".  bitfy of a negative integer
\* never reaches a zero quotient (divmod floors towards -1): the recursion
\* ends in RecursionError.
as_bytes(n, pad_to) ==
    IF n.neg
    THEN [err |-> "RecursionError", bytes |-> <<>>]
    ELSE [err |-> "none", bytes |-> ljust(bitfy(n.mag), pad_to)]

\* Decima.decode_line: err is the exception raised, "none" when it returns.
decode_line(line) ==
    LET whole == int(line)
    IN  IF whole.ok
        THEN as_bytes(whole, chunk_size)
        ELSE LET x == split(line, ":")
                 n == int(x[1])
             IN  IF ~n.ok
                 THEN [err |-> "ValueError", bytes |-> <<>>]
                 ELSE LET p == int(x[2])
                      IN  IF ~p.ok
                          THEN [err |-> "ValueError", bytes |-> <<>>]
                          ELSE as_bytes(n, IntVal(p))

(***************************************************************************)
(* File names and the file system.                                         *)
(***************************************************************************)
\* What argparse leaves in args.e / args.d when the option is absent.
None == <<>>

\* ".decima"
Extension == <<".", "d", "e", "c", "i", "m", "a">>

RECURSIVE rstrip(_, _)
\* str.rstrip(chars): drop trailing characters while they are AMONG chars.
rstrip(name, chars) ==
    IF name # <<>> /\ (\E i \in 1..Len(chars) : chars[i] = name[Len(name)])
    THEN rstrip(SubSeq(name, 1, Len(name) - 1), chars)
    ELSE name

\* A file: raw bytes, or a gzip container carrying text.
File(kind, data) == [kind |-> kind, data |-> data]

\* open(name, 'wb') / gzip.open(name, 'w'): create or truncate.
Create(files, name, kind) ==
    [n \in DOMAIN files \cup {name} |->
        IF n = name THEN File(kind, <<>>) ELSE files[n]]

\* write(data) on the open file name.
Write(files, name, data) ==
    [files EXCEPT ![name] = File(@.kind, @.data \o data)]

\* A read that asks for one byte less than chunk_size.
Read_short(data, pos) ==
    SubSeq(data, pos + 1, IF pos + chunk_size - 1 < Len(data)
                          THEN pos + chunk_size - 1 ELSE Len(data))

\* read(chunk_size) at offset pos of a byte sequence.
Read(data, pos) ==
    SubSeq(data, pos + 1, IF pos + chunk_size < Len(data)
                          THEN pos + chunk_size ELSE Len(data))

\* The next line of text at offset pos: up to and including the newline.
ReadLine(text, pos) ==
    LET ends == {i \in (pos + 1)..Len(text) : text[i] = "\n"}
        stop == IF ends = {} THEN Len(text)
                ELSE CHOOSE i \in ends : \A j \in ends : i <= j
    IN  SubSeq(text, pos + 1, stop)

VARIABLES
    pc,             \* where the run is
    args,           \* argparse's namespace: [e, d]
    stdout,         \* what print() wrote
    status,         \* "running", "ok", or the exception that ended the run
    fs,             \* the file system: name -> File
    op,             \* the method __main__ dispatched to
    decima_file,    \* self.decima_file
    encoded_file,   \* encode's output name
    decoded_file,   \* decode's output name
    chunk,          \* encode's current chunk
    rpos,           \* read offset of the open input file
    human_readable_line,  \* the line encode wrote last
    line,           \* decode's current line
    decoded,        \* decode's current decoded bytes
    v,              \* bitfy's argument in the current generator frame
    yielded,        \* the bytes bitfy has yielded so far
    given           \* the input the run started from (history)

vars == <<pc, args, stdout, status, fs, op, decima_file, encoded_file,
          decoded_file, chunk, rpos, human_readable_line, line, decoded,
          v, yielded, given>>

procVars  == <<decima_file, encoded_file, decoded_file, chunk, rpos,
               human_readable_line, line, decoded>>
bitfyVars == <<v, yielded>>

(***************************************************************************)
(* Inputs.                                                                 *)
(***************************************************************************)
MaxHead == 33
MaxLines == 3
MaxLineLen == 5
MaxN == 600

ByteVals == {0, 1, 255}
TailLens == {0, 1, chunk_size - 1, chunk_size}

Seg(b, n) == [i \in 1..n |-> b]

\* Source files: a run of one byte value followed by a run of another.
Files ==
    {Seg(a, m) \o Seg(b, n) :
        a \in ByteVals, b \in ByteVals, m \in 0..MaxHead, n \in TailLens}
    \cup {<<1, 2>>}

SmallFiles == {<<>>, <<1, 2>>, Seg(255, chunk_size + 1)}

\* Pieces of text an encoded file handed to decode may be made of.
Tokens ==
    { <<"1", "\n">>, <<"0", "\n">>, <<"7">>, <<"\n">>,
      <<"5", "1", "3", ":", "2", "\n">>,
      <<"2", "5", "6", ":", "1", "\n">>,
      <<"0", ":", "5", "\n">>,
      <<"0", ":", "0", "\n">>,
      <<"1", ":", "2", ":", "3", "\n">>,
      <<"-", "1", "\n">>,
      <<"9", ":", "-", "1", "\n">>,
      <<"5", ":", "\n">>,
      <<"x", "\n">> }

RECURSIVE Streams(_)
Streams(n) ==
    IF n = 0 THEN {<<>>}
    ELSE LET S == Streams(n - 1)
         IN  S \cup {s \o t : s \in S, t \in Tokens}

LineAlphabet == {"0", "1", "2", "3", "5", "6", ":", "-", "\n"}

RECURSIVE Texts(_)
Texts(n) ==
    IF n = 0 THEN {<<>>}
    ELSE LET S == Texts(n - 1)
         IN  S \cup {Append(t, c) : t \in S, c \in LineAlphabet}

DefaultName == <<"x">>
Names == {<<"x">>, <<"d", "a", "t", "a">>, <<"a">>, <<"l", "o", "g">>}

Given(name, kind, data) == [name |-> name, kind |-> kind, data |-> data]

Inputs ==
    {Given(DefaultName, "raw", f) : f \in Files}
    \cup {Given(n, "raw", f) : n \in Names, f \in SmallFiles}
    \cup {Given(DefaultName \o Extension, "gz", s) : s \in Streams(MaxLines)}

Idle ==
    /\ decima_file = None /\ encoded_file = None /\ decoded_file = None
    /\ chunk = <<>> /\ rpos = 0 /\ human_readable_line = <<>>
    /\ line = <<>> /\ decoded = <<>>

Init ==
    /\ given \in Inputs
    /\ fs = [n \in {given.name} |-> File(given.kind, given.data)]
    /\ pc = "shell"
    /\ args = [e |-> None, d |-> None]
    /\ stdout = <<>>
    /\ status = "running"
    /\ op = "none"
    /\ Idle
    /\ v = <<0>> /\ yielded = <<>>

(***************************************************************************)
(* The command line.                                                       *)
(***************************************************************************)
\* The user runs the tool on the files at hand: -e on a raw file or absent,
\* -d on any file or absent.
Invoke(e, d) ==
    /\ pc = "shell"
    /\ e \in {None} \cup {n \in DOMAIN fs : fs[n].kind = "raw"}
    /\ d \in {None} \cup DOMAIN fs
    /\ args' = [e |-> e, d |-> d]
    /\ pc' = "main"
    /\ UNCHANGED <<stdout, status, fs, op, procVars, bitfyVars, given>>

\* After an encode that completed, the user decodes the file it produced.
InvokeDecode ==
    /\ pc = "exit" /\ status = "ok" /\ op = "encode"
    /\ args' = [e |-> None, d |-> encoded_file]
    /\ pc' = "main"
    /\ status' = "running"
    /\ op' = "none"
    /\ UNCHANGED <<stdout, fs, procVars, bitfyVars, given>>

\* The mode test of __main__: exactly one of -e / -d.
UsageError(a) == (a.e = None /\ a.d = None) \/ (a.e # None /\ a.d # None)

\* __main__ after parse_args: report, construct, dispatch.
Main ==
    /\ pc = "main"
    /\ stdout' = IF UsageError(args)
                 THEN Append(stdout, "Either encode or decode")
                 ELSE stdout
    /\ decima_file' = IF args.e # None THEN args.e ELSE args.d
    /\ IF args.e # None
       THEN pc' = "encode" /\ op' = "encode" /\ UNCHANGED status
       ELSE IF args.d # None
       THEN pc' = "decode" /\ op' = "decode" /\ UNCHANGED status
       ELSE pc' = "exit" /\ status' = "AttributeError" /\ UNCHANGED op
    /\ UNCHANGED <<args, fs, encoded_file, decoded_file, chunk, rpos,
                   human_readable_line, line, decoded, bitfyVars, given>>

(***************************************************************************)
(* Decima.encode                                                           *)
(***************************************************************************)
\* Name the output, create it, open the input, read the first chunk.
EncodeOpen ==
    /\ pc = "encode"
    /\ encoded_file' = decima_file \o Extension
    /\ fs' = Create(fs, decima_file \o Extension, "gz")
    /\ IF decima_file \in DOMAIN fs
       THEN /\ chunk' = Read(fs[decima_file].data, 0)
            /\ rpos' = Len(chunk')
            /\ pc' = "enc_loop"
            /\ UNCHANGED status
       ELSE /\ status' = "FileNotFoundError"
            /\ pc' = "exit"
            /\ UNCHANGED <<chunk, rpos>>
    /\ UNCHANGED <<args, stdout, op, decima_file, decoded_file,
                   human_readable_line, line, decoded, bitfyVars, given>>

\* One pass of "while chunk": write the chunk's line, read the next chunk.
EncodeStep ==
    /\ pc = "enc_loop"
    /\ chunk # <<>>
    /\ human_readable_line' = line_of(chunk)
    /\ fs' = Write(fs, encoded_file, human_readable_line')
    /\ chunk' = Read(fs[decima_file].data, rpos)
    /\ rpos' = rpos + Len(chunk')
    /\ UNCHANGED <<pc, args, stdout, status, op, decima_file, encoded_file,
                   decoded_file, line, decoded, bitfyVars, given>>

\* The read that yields no bytes ends the loop.
EncodeExit ==
    /\ pc = "enc_loop"
    /\ chunk = <<>>
    /\ pc' = "exit"
    /\ status' = "ok"
    /\ UNCHANGED <<args, stdout, fs, op, procVars, bitfyVars, given>>

(***************************************************************************)
(* Decima.decode                                                           *)
(***************************************************************************)
\* Name the output, create it, open the input.
DecodeOpen ==
    /\ pc = "decode"
    /\ decoded_file' = rstrip(decima_file, Extension)
    /\ rpos' = 0
    /\ IF decoded_file' = <<>>
       THEN /\ status' = "FileNotFoundError"
            /\ pc' = "exit"
            /\ UNCHANGED fs
       ELSE /\ fs' = Create(fs, decoded_file', "raw")
            /\ IF decima_file \in DOMAIN fs
               THEN pc' = "dec_loop" /\ UNCHANGED status
               ELSE pc' = "exit" /\ status' = "FileNotFoundError"
    /\ UNCHANGED <<args, stdout, op, decima_file, encoded_file, chunk,
                   human_readable_line, line, decoded, bitfyVars, given>>

\* A decode loop that skips a line decode_line fails on and carries on.
DecodeStep_continue ==
    /\ pc = "dec_loop"
    /\ fs[decima_file].kind = "gz"
    /\ rpos < Len(fs[decima_file].data)
    /\ line' = ReadLine(fs[decima_file].data, rpos)
    /\ rpos' = rpos + Len(line')
    /\ LET r == decode_line(line')
       IN  IF r.err = "none"
           THEN /\ decoded' = r.bytes
                /\ fs' = Write(fs, decoded_file, r.bytes)
           ELSE UNCHANGED <<decoded, fs>>
    /\ UNCHANGED <<pc, status, args, stdout, op, decima_file, encoded_file,
                   decoded_file, chunk, human_readable_line, bitfyVars, given>>

\* One pass of "for line in decimals": decode the line, write the bytes.
\* An exception of decode_line leaves the loop with nothing written for it.
DecodeStep ==
    /\ pc = "dec_loop"
    /\ fs[decima_file].kind = "gz"
    /\ rpos < Len(fs[decima_file].data)
    /\ line' = ReadLine(fs[decima_file].data, rpos)
    /\ rpos' = rpos + Len(line')
    /\ LET r == decode_line(line')
       IN  IF r.err = "none"
           THEN /\ decoded' = r.bytes
                /\ fs' = Write(fs, decoded_file, r.bytes)
                /\ UNCHANGED <<pc, status>>
           ELSE /\ status' = r.err
                /\ pc' = "exit"
                /\ UNCHANGED <<decoded, fs>>
    /\ UNCHANGED <<args, stdout, op, decima_file, encoded_file, decoded_file,
                   chunk, human_readable_line, bitfyVars, given>>

\* The input is not a gzip container: the first read fails.
DecodeBadGzip ==
    /\ pc = "dec_loop"
    /\ fs[decima_file].kind # "gz"
    /\ fs[decima_file].data # <<>>
    /\ status' = "BadGzipFile"
    /\ pc' = "exit"
    /\ UNCHANGED <<args, stdout, fs, op, procVars, bitfyVars, given>>

\* The source is exhausted.
DecodeExit ==
    /\ pc = "dec_loop"
    /\ rpos >= Len(fs[decima_file].data)
    /\ pc' = "exit"
    /\ status' = "ok"
    /\ UNCHANGED <<args, stdout, fs, op, procVars, bitfyVars, given>>

Next ==
    \/ \E e \in {None} \cup DOMAIN fs, d \in {None} \cup DOMAIN fs : Invoke(e, d)
    \/ InvokeDecode
    \/ Main
    \/ EncodeOpen
    \/ EncodeStep
    \/ EncodeExit
    \/ DecodeOpen
    \/ DecodeStep
    \/ DecodeBadGzip
    \/ DecodeExit

Spec == Init /\ [][Next]_vars

(***************************************************************************)
(* decode_line on its own: every short text over LineAlphabet.             *)
(***************************************************************************)
InitLine ==
    /\ given \in Texts(MaxLineLen)
    /\ line = given
    /\ pc = "decode_line"
    /\ fs = <<>>
    /\ args = [e |-> None, d |-> None]
    /\ stdout = <<>>
    /\ status = "running"
    /\ op = "none"
    /\ decima_file = None /\ encoded_file = None /\ decoded_file = None
    /\ chunk = <<>> /\ rpos = 0 /\ human_readable_line = <<>>
    /\ decoded = <<>>
    /\ v = <<0>> /\ yielded = <<>>

\* decoded = self.decode_line(line)
CallDecodeLine ==
    /\ pc = "decode_line"
    /\ LET r == decode_line(line)
       IN  /\ status' = IF r.err = "none" THEN "ok" ELSE r.err
           /\ decoded' = r.bytes
    /\ pc' = "exit"
    /\ UNCHANGED <<args, stdout, fs, op, decima_file, encoded_file,
                   decoded_file, chunk, rpos, human_readable_line, line,
                   bitfyVars, given>>

NextLine == CallDecodeLine

SpecLine == InitLine /\ [][NextLine]_vars

(***************************************************************************)
(* bitfy on its own, one generator frame per step.                         *)
(***************************************************************************)
BigInputs == {65535, 65536, 16777215, 16777216, 2147483647}

InitBitfy ==
    /\ given \in (0..MaxN) \cup BigInputs
    /\ v = NatInt(given)
    /\ yielded = <<>>
    /\ pc = "bitfy"
    /\ fs = <<>>
    /\ args = [e |-> None, d |-> None]
    /\ stdout = <<>>
    /\ status = "running"
    /\ op = "none"
    /\ Idle

\* A generator that stops on a zero remainder instead of a zero quotient.
BitfyStep_rem ==
    /\ pc = "bitfy"
    /\ LET dm == divmod(v)
       IN  /\ yielded' = Append(yielded, dm.r)
           /\ IF dm.r = 0
              THEN pc' = "exit" /\ status' = "ok" /\ UNCHANGED v
              ELSE v' = dm.q /\ UNCHANGED <<pc, status>>
    /\ UNCHANGED <<args, stdout, fs, op, procVars, given>>

\* One frame of the generator: divmod, yield the remainder, stop on a zero
\* quotient, otherwise recurse on the quotient.
BitfyStep ==
    /\ pc = "bitfy"
    /\ LET dm == divmod(v)
       IN  /\ yielded' = Append(yielded, dm.r)
           /\ IF dm.q = <<0>>
              THEN pc' = "exit" /\ status' = "ok" /\ UNCHANGED v
              ELSE v' = dm.q /\ UNCHANGED <<pc, status>>
    /\ UNCHANGED <<args, stdout, fs, op, procVars, given>>

NextBitfy == BitfyStep

\* The consumer, bytes(), keeps asking the generator for its next value.
SpecBitfy == InitBitfy /\ [][NextBitfy]_vars /\ WF_vars(NextBitfy)

(***************************************************************************)
(* Vocabulary of the properties.                                           *)
(***************************************************************************)
RECURSIVE Decimal(_)
\* The decimal numeral of a natural number.
Decimal(n) ==
    IF n < 10 THEN <<DigitChars[n + 1]>>
    ELSE Append(Decimal(n \div 10), DigitChars[(n % 10) + 1])

Min(a, b) == IF a < b THEN a ELSE b

\* ceil(n / chunk_size)
NumChunks(n) == (n + chunk_size - 1) \div chunk_size

\* Bytes [i * chunk_size, min((i + 1) * chunk_size, n)) of B, i from 0.
ChunkAt(B, i) == SubSeq(B, i * chunk_size + 1, Min((i + 1) * chunk_size, Len(B)))

RECURSIVE Concat(_)
Concat(ss) == IF ss = <<>> THEN <<>> ELSE Head(ss) \o Concat(Tail(ss))

RECURSIVE LinesOf(_)
\* The lines of a text, each with its newline; the last may lack one.
LinesOf(text) ==
    IF text = <<>> THEN <<>>
    ELSE LET l == ReadLine(text, 0)
         IN  <<l>> \o LinesOf(SubSeq(text, Len(l) + 1, Len(text)))

HasColon(t) == \E i \in 1..Len(t) : t[i] = ":"

\* The text between the first ':' and the end of the line.
AfterColon(t) ==
    LET k == CHOOSE i \in 1..Len(t) : t[i] = ":" /\ \A j \in 1..(i - 1) : t[j] # ":"
    IN  SubSeq(t, k + 1, Len(t) - 1)

\* The run is an encode of the given raw file.
Encoding == op = "encode" /\ pc \in {"enc_loop", "exit"} /\ decima_file \in DOMAIN fs

\* The run is a decode whose output was opened and whose input is a gzip file.
Decoding ==
    /\ op = "decode" /\ pc \in {"dec_loop", "exit"}
    /\ decoded_file # None
    /\ decima_file \in DOMAIN fs
    /\ fs[decima_file].kind = "gz"

\* The run is the decode of the file the preceding encode produced.
DecodingEncoded == Decoding /\ given.kind = "raw" /\ decima_file = encoded_file

(***************************************************************************)
(* C1: Round trip.  Encoding a byte sequence B and then decoding the       *)
(* stream that encode wrote completes without error and writes exactly B,  *)
(* for B of every length (0, 1, chunk_size - 1, chunk_size,                *)
(* chunk_size + 1, multiples of chunk_size plus or minus 1).               *)
(***************************************************************************)
C1_RoundTrip ==
    (DecodingEncoded /\ pc = "exit") =>
        /\ status = "ok"
        /\ fs[decoded_file].data = given.data

C1_Witness ==
    /\ DecodingEncoded /\ pc = "exit" /\ status = "ok"
    /\ Len(given.data) = 2 * chunk_size - 1
    /\ given.data[Len(given.data)] = 0
    /\ fs[decoded_file].data = given.data

(***************************************************************************)
(* C2: Suffix rule.  The line encode writes for a chunk of length L in     *)
(* 1..chunk_size contains a ':' exactly when L < chunk_size, and then the  *)
(* text after the ':' is the decimal numeral of L; a chunk of exactly      *)
(* chunk_size bytes gets no suffix, however small its value.               *)
(***************************************************************************)
C2_SuffixRule ==
    [][(pc = "enc_loop" /\ chunk # <<>>) =>
        /\ Len(chunk) \in 1..chunk_size
        /\ HasColon(human_readable_line') <=> Len(chunk) < chunk_size
        /\ HasColon(human_readable_line') =>
               AfterColon(human_readable_line') = Decimal(Len(chunk))]_vars

\* A full-size chunk of value zero was written as the bare line "0".
C2_Witness ==
    /\ Encoding /\ pc = "enc_loop"
    /\ rpos >= chunk_size
    /\ human_readable_line = <<"0", "\n">>

(***************************************************************************)
(* C7: Encoder stream shape.  In every state of the encode loop the text   *)
(* written so far is the encodings of the consecutive chunks read so far,  *)
(* in read order; the loop ends at the first read of zero bytes and writes *)
(* nothing for it, so a source of n bytes yields ceil(n / chunk_size)      *)
(* lines, line i encodes bytes [i * chunk_size, min((i+1) * chunk_size,    *)
(* n)), and only the last line can carry a ':' suffix.                     *)
(***************************************************************************)
C7_StreamShape ==
    Encoding =>
        LET B       == fs[decima_file].data
            written == fs[encoded_file].data
            lines   == LinesOf(written)
            k       == NumChunks(rpos - Len(chunk))
        IN  /\ lines = [i \in 1..k |-> line_of(ChunkAt(B, i - 1))]
            /\ \A i \in 1..(Len(lines) - 1) : ~HasColon(lines[i])
            /\ chunk = ChunkAt(B, k)
            /\ pc = "exit" =>
                   /\ chunk = <<>>
                   /\ rpos = Len(B)
                   /\ Len(lines) = NumChunks(Len(B))

\* Three lines were written for a source of 2 * chunk_size + 1 bytes.
C7_Witness ==
    /\ Encoding /\ pc = "exit"
    /\ Len(fs[decima_file].data) = 2 * chunk_size + 1
    /\ Len(LinesOf(fs[encoded_file].data)) = 3
    /\ HasColon(LinesOf(fs[encoded_file].data)[3])

(***************************************************************************)
(* C8: Decode abort.  When decode_line fails on line k, decode stops       *)
(* there: no later line is decoded or written and the output is the        *)
(* decoded bytes of the lines before k, left in place; when no line fails, *)
(* decode ends once the source is exhausted and the output is the decoded  *)
(* bytes of all lines in order.                                            *)
(***************************************************************************)
Fails(l) == decode_line(l).err # "none"

\* The index of the first line decode_line fails on; Len + 1 if none.
FirstBad(lines) ==
    CHOOSE k \in 1..(Len(lines) + 1) :
        /\ k <= Len(lines) => Fails(lines[k])
        /\ \A i \in 1..(k - 1) : ~Fails(lines[i])

DecodedUpTo(lines, j) == Concat([i \in 1..j |-> decode_line(lines[i]).bytes])

\* The number of lines read so far.
LinesRead(lines) ==
    CHOOSE j \in 0..Len(lines) : Len(Concat(SubSeq(lines, 1, j))) = rpos

C8_DecodeAbort ==
    Decoding =>
        LET lines == LinesOf(fs[decima_file].data)
            bad   == FirstBad(lines)
            out   == fs[decoded_file].data
        IN  /\ pc = "dec_loop" =>
                   /\ LinesRead(lines) < bad
                   /\ out = DecodedUpTo(lines, LinesRead(lines))
                   /\ LinesRead(lines) = Len(lines) => ENABLED DecodeExit
            /\ (pc = "exit" /\ status = "ok") =>
                   /\ bad = Len(lines) + 1
                   /\ rpos = Len(fs[decima_file].data)
                   /\ out = DecodedUpTo(lines, Len(lines))
            /\ (pc = "exit" /\ status # "ok") =>
                   /\ bad <= Len(lines)
                   /\ LinesRead(lines) = bad
                   /\ line = lines[bad]
                   /\ out = DecodedUpTo(lines, bad - 1)

\* Decode stopped at a bad second line with the first line's bytes written
\* and a further line unread.
C8_Witness ==
    /\ Decoding /\ pc = "exit" /\ status = "ValueError"
    /\ given.kind = "gz"
    /\ FirstBad(LinesOf(given.data)) = 2
    /\ Len(fs[decoded_file].data) = chunk_size
    /\ rpos < Len(given.data)

(***************************************************************************)
(* C10: Zero handling.  The all-zero chunk of length L in 1..chunk_size is *)
(* written as "0" when L = chunk_size and as "0:L" otherwise; decoding "0" *)
(* yields chunk_size zero bytes and decoding "0:L" yields L zero bytes.    *)
(***************************************************************************)
ZeroLine(L) ==
    IF L = chunk_size THEN <<"0", "\n">>
    ELSE <<"0", ":">> \o Decimal(L) \o <<"\n">>

C10_ZeroHandling ==
    [][/\ (pc = "enc_loop" /\ chunk # <<>> /\ chunk = Seg(0, Len(chunk))) =>
              human_readable_line' = ZeroLine(Len(chunk))
       /\ (pc = "dec_loop" /\ rpos' > rpos) =>
              \A L \in 1..chunk_size :
                  line' = ZeroLine(L) =>
                      /\ pc' = "dec_loop"
                      /\ decoded' = Seg(0, L)
                      /\ fs'[decoded_file].data = fs[decoded_file].data \o Seg(0, L)]_vars

\* "0:5" was decoded to five zero bytes.
C10_Witness ==
    /\ Decoding /\ pc = "dec_loop"
    /\ line = <<"0", ":", "5", "\n">>
    /\ decoded = <<0, 0, 0, 0, 0>>

(***************************************************************************)
(* C3: decode_line fails (and returns no bytes) whenever the minimal       *)
(* little-endian byte form of the parsed integer is longer than the target *)
(* length (the value after ':' if present, else chunk_size), e.g. "256:1"; *)
(* so every value it returns has exactly target-length bytes.              *)
(***************************************************************************)
\* The integer and the target length of a line decode_line could parse.
Parsed(l) ==
    LET whole == int(l)
        x     == split(l, ":")
    IN  IF whole.ok
        THEN [ok |-> TRUE, n |-> whole, target |-> chunk_size]
        ELSE IF Len(x) >= 2 /\ int(x[1]).ok /\ int(x[2]).ok
        THEN [ok |-> TRUE, n |-> int(x[1]), target |-> IntVal(int(x[2]))]
        ELSE [ok |-> FALSE, n |-> whole, target |-> 0]

\* The length of the minimal byte form of a non-negative integer.
MinimalLen(L) == IF L = <<0>> THEN 0 ELSE Len(bitfy(L))

C3_LengthError ==
    (pc = "exit" /\ Parsed(line).ok /\ ~Parsed(line).n.neg) =>
        LET p == Parsed(line)
        IN  /\ MinimalLen(p.n.mag) > p.target =>
                   (status # "ok" /\ decoded = <<>>)
            /\ status = "ok" => Len(decoded) = p.target

(***************************************************************************)
(* C4: decode_line rejects with a format error every line that is not a    *)
(* valid INTEGER or INTEGER:LENGTH token (INTEGER is 0 or a digit sequence *)
(* with a nonzero lead, LENGTH a digit sequence in 1..chunk_size - 1),     *)
(* e.g. "-1" and "1:2:3", and returns no bytes for it.                     *)
(***************************************************************************)
AllDigits(t) == t # <<>> /\ \A i \in 1..Len(t) : IsDigitChar(t[i])

RECURSIVE NumeralValue(_)
NumeralValue(t) ==
    IF t = <<>> THEN 0
    ELSE 10 * NumeralValue(SubSeq(t, 1, Len(t) - 1)) + DigitVal(t[Len(t)])

IsInteger(t) == AllDigits(t) /\ (Len(t) = 1 \/ t[1] # "0")

IsLength(t) == AllDigits(t) /\ NumeralValue(t) \in 1..(chunk_size - 1)

\* The line without its line terminator.
Token(l) ==
    IF l # <<>> /\ l[Len(l)] = "\n" THEN SubSeq(l, 1, Len(l) - 1) ELSE l

ValidToken(l) ==
    LET t == Token(l)
    IN  \/ IsInteger(t)
        \/ \E k \in 1..Len(t) :
               /\ t[k] = ":"
               /\ IsInteger(SubSeq(t, 1, k - 1))
               /\ IsLength(SubSeq(t, k + 1, Len(t)))

C4_FormatError ==
    (pc = "exit" /\ ~ValidToken(line)) =>
        (status # "ok" /\ decoded = <<>>)

(***************************************************************************)
(* C5: Mode selection.  With both -e and -d, or with neither, the run is a *)
(* fatal usage error: the message is reported and neither encode nor       *)
(* decode is executed, no output file is created or written; encode or     *)
(* decode runs only with exactly one of -e / -d.                           *)
(***************************************************************************)
C5_UsageFatal ==
    UsageError(args) =>
        /\ pc \in {"shell", "main", "exit"}
        /\ op = "none"
        /\ fs = [n \in {given.name} |-> File(given.kind, given.data)]
        /\ pc = "exit" => stdout # <<>>

(***************************************************************************)
(* C6: Output names.  Encode of N writes N + ".decima"; decode of          *)
(* N + ".decima" writes exactly N (the extension, and only the extension,  *)
(* is removed), so encode then decode restores the original name.          *)
(***************************************************************************)
EndsWithExtension(name) ==
    /\ Len(name) >= Len(Extension)
    /\ SubSeq(name, Len(name) - Len(Extension) + 1, Len(name)) = Extension

WithoutExtension(name) == SubSeq(name, 1, Len(name) - Len(Extension))

C6_OutputName ==
    /\ (op = "encode" /\ pc \in {"enc_loop", "exit"}) =>
           encoded_file = decima_file \o Extension
    /\ (op = "decode" /\ pc \in {"dec_loop", "exit"}
            /\ EndsWithExtension(decima_file)) =>
           decoded_file = WithoutExtension(decima_file)

(***************************************************************************)
(* C9: bitfy.  As claimed: bitfy terminates for every non-negative n and   *)
(* yields the minimal little-endian byte form of n, byte k being           *)
(* floor(n / 256^k) mod 256, the last byte non-zero for n > 0, and no      *)
(* bytes at all for n = 0.                                                 *)
(***************************************************************************)
ByteAt(n, k) == (n \div (ByteBase ^ k)) % ByteBase

RECURSIVE ByteLength(_)
\* The number of bytes of the minimal byte form.
ByteLength(n) == IF n = 0 THEN 0 ELSE 1 + ByteLength(n \div ByteBase)

MinimalLE(n) == [k \in 1..ByteLength(n) |-> ByteAt(n, k - 1)]

====
